---- MODULE Spec2Model ----
(***************************************************************************)
(* A model of the counterexample-guided learner of separators/learn.py,    *)
(* its external-solver call (separators/cvc4.py) and the finite-structure  *)
(* class Model (separators/logic.py).                                      *)
(*                                                                         *)
(* Formulas are represented by their extension over a finite universe of   *)
(* candidate structures (Structures): a formula is the set of structures   *)
(* that satisfy it, so Or([]) is {} and the solver's answer to             *)
(* "a AND NOT b" is a member of a \ b.  The universe stands for the        *)
(* structures that satisfy the background axioms.                          *)
(***************************************************************************)
EXTENDS Integers, Sequences, FiniteSets, TLC

\* ------------------------------------------------------------------ bounds
NModels == 3
\* the most example models a batch file holds
MaxBatch == 2
\* the number of element names the operations on a Model draw from
MaxElems == 2

Structures == 1..NModels
\* the number of elements every sort of structure m has
ModelSize(m) == m
\* the largest K the minimization loop is followed to, one step at a time
MaxK == NModels

\* "no model": the None a query returns, and the m of a check that gave no model
NoStructure == 0
NoModel == [m |-> NoStructure, label |-> ""]

VARIABLES
    \* run configuration
    mode,            \* "learn" (interactive) or "separate" (batch)
    no_cvc4,         \* args.no_cvc4: TRUE selects the embedded (z3) backend
    formula,         \* the target formula of learn
    \* the FOLFile of separate: its models and its constraints, by label
    f_models, constraint_pos, constraint_neg, constraint_imp,
    \* LearningResult
    success, current, models, reason,
    \* locals of learn / separate
    pc, r, r1, r2, k, p_constraints, n_constraints, c, mapping,
    exc,             \* the exception that escaped the run, "" if none
    \* timers: the sign of remaining(): "left" (> 0), "zero" (= 0), "over" (< 0)
    ct, st,
    \* the Separator collaborator
    sep_models, sep_calls,
    \* the last external-solver invocation and what solve_with_cvc4 made of it
    proc, cvc,
    \* history: the oracle queries begun, and those that returned a model
    nqueries, ncex,
    \* the z3.Solver s of learn: its assertion stack
    solver,
    \* history: the checks issued in the query in progress (or, between two
    \* queries, the last one), in order
    issued,
    \* a Model under construction: the object, the last operation on it, what
    \* that returned, and the exception that ended its construction ("" if none)
    M, op, ret, m_exc,
    \* an Environment in use: the object, the exception that ended its use,
    \* and the history of its calls: the last one, the lookups saved before
    \* each bind still open, and the lookups saved before the bind that the
    \* last pop matched
    env, env_exc, env_op, env_saved, env_want,
    \* the last call of check on the Model: the formula (its place in
    \* CheckFormulas, 0 before any call) and the outcome
    chk,
    \* a call of _parse_model: its lines and their parsed define-fun items,
    \* the Model m it builds, where it is, the item it is at, the exception
    \* that ended it, and m as it was when the completion pass began
    p_lines, p_items, p_m, p_pc, p_i, p_exc, p_parsed,
    \* the module-level tables of learn.py, shared by every run of learn in the
    \* process; the runs (by caller): the signature index (0: none), where the
    \* run is, and the symbol its last translation got from the tables; the
    \* number of runs begun; whether two runs were ever in progress together
    sorts_to_z3, z3_rel_func, runs, nruns, overlapped

resultVars == <<success, current, models, reason>>
localVars  == <<r, r1, r2, k, p_constraints, n_constraints, c, mapping>>
timerVars  == <<ct, st>>
sepVars    == <<sep_models, sep_calls>>
cfgVars    == <<mode, no_cvc4, formula, f_models, constraint_pos, constraint_neg, constraint_imp>>
extVars    == <<proc, cvc>>
histVars   == <<nqueries, ncex, issued>>
modelVars  == <<M, op, ret, m_exc>>
envVars    == <<env, env_exc, env_op, env_saved, env_want>>
\* the objects the learner's loop does not touch
parseVars  == <<p_lines, p_items, p_m, p_pc, p_i, p_exc, p_parsed>>
tableVars  == <<sorts_to_z3, z3_rel_func, runs, nruns, overlapped>>
objVars    == <<modelVars, envVars, chk, parseVars, tableVars>>

vars == <<cfgVars, resultVars, pc, localVars, exc, timerVars, sepVars, extVars, histVars,
         solver, objVars>>

\* ------------------------------------------------------------- formulas
\* Or([]): the empty disjunction, false
OrEmpty == {}

\* check(formula, model): does the structure satisfy the formula
evaluate(f, m) == m \in f

\* ---------------------------------------------------------------- timers
\* The sign of remaining() can only go down as time passes.
After(t) ==
    CASE t = "left" -> {"left", "zero", "over"}
      [] t = "zero" -> {"zero", "over"}
      [] OTHER      -> {"over"}

\* Timer.check_time raises TimeoutException once the limit is exceeded
Exceeded(t) == t = "over"

\* ------------------------------------------------------- exception flow
MsgZ3   == "Z3 did not produce equivalence or model"
MsgCVC4 == "CVC4 did not produce equivalence or model"
MsgSeparate == "couldn't separate models under given restrictions"
MsgTimeout == "timeout"

\* learn's try/except: TimeoutException and RuntimeError end the run with a
\* reason, anything else leaves learn as an exception.
Caught(e) == e \in {"TimeoutException", "RuntimeError"}

Raise(e, msg) ==
    IF Caught(e)
    THEN /\ reason' = (IF e = "TimeoutException" THEN MsgTimeout ELSE msg)
         /\ pc' = "done"
         /\ exc' = ""
    ELSE /\ reason' = reason
         /\ pc' = "crashed"
         /\ exc' = e

\* ------------------------------------------------------------ the solver
\* The structures a check of "a AND NOT b" may answer with.
Disagree(a, b) == {m \in Structures : evaluate(a, m) /\ ~evaluate(b, m)}

\* z3.Not(toZ3(b))
NotZ3(b) == Structures \ b

\* The assertion stack of a z3.Solver: a sequence of frames, each the
\* sequence of the formulas added to it.  The first frame is the one the
\* axioms were added to (learn.py:199-200); the universe already stands
\* for the structures that satisfy them.
NewSolver == <<<<Structures>>>>

\* a variant of pop that leaves the frame on the stack
solver_pop_none(x) == x

\* solver.push(), solver.add(f), solver.pop()
solver_push(x) == Append(x, <<>>)
solver_add(x, f) == [x EXCEPT ![Len(x)] = Append(@, f)]
solver_pop(x) == SubSeq(x, 1, Len(x) - 1)

\* the structures that satisfy every assertion on the stack
Asserted(x) ==
    {m \in Structures : \A i \in 1..Len(x) : \A j \in 1..Len(x[i]) : evaluate(x[i][j], m)}

\* a variant that adds no bound
bound_sort_counts_none(x, K) == x

\* bound_sort_counts(solver, {sort: K}): every sort has at most K elements
bound_sort_counts(x, K) == solver_add(x, {m \in Structures : ModelSize(m) <= K})

\* What a sound solver can answer on an assertion set whose models are S:
\* sat with one of them, unsat only when there is none, unknown at any time.
SolverAnswers(S) ==
    {[res |-> "sat", m |-> m] : m \in S}
    \cup (IF S = {} THEN {[res |-> "unsat", m |-> NoStructure]} ELSE {})
    \cup {[res |-> "unknown", m |-> NoStructure]}

\* fm(a, b, env, solver, timer) on the solver x with the timer at t: push,
\* add a and NOT b, check, pop.  timer.solver_check checks the time before
\* and after the solver's check and raises TimeoutException when the limit
\* is exceeded, which leaves the pushed frame on the stack.
fm(x, a, b, t) ==
    LET x1 == solver_add(solver_add(solver_push(x), a), NotZ3(b)) IN
    IF Exceeded(t)
    THEN {[raised |-> TRUE, res |-> "none", m |-> NoStructure, t |-> t, solver |-> x1]}
    ELSE {[raised |-> Exceeded(t2),
           res |-> IF Exceeded(t2) THEN "none" ELSE o.res,
           m |-> IF Exceeded(t2) THEN NoStructure ELSE o.m,
           t |-> t2,
           solver |-> IF Exceeded(t2) THEN x1 ELSE solver_pop(x1)]
              : t2 \in After(t), o \in SolverAnswers(Asserted(x1))}

\* the two directional checks, and what the history notes of a check: its
\* direction, the bound K on the sorts (0: none) and the solver's answer
CurrentNotFormula == "current AND NOT formula"
FormulaNotCurrent == "formula AND NOT current"
Issued(dir, K, res) == [dir |-> dir, k |-> K, res |-> res]

\* "if m is not None"
GotModel(m) == m # NoStructure

\* a variant that goes on to the second check whatever the first gave
FirstGotModelNever(m) == FALSE

\* "if m is not None" after the first check of a query
FirstGotModel(m) == GotModel(m)

\* extract_model(m, sig, label)
extract_model(m, label) == [m |-> m, label |-> label]

\* the labels find_model_or_equivalence gives the model of its first and
\* of its second check
Z3Label1 == "-"

\* a variant that gives the second check's model the label of the first
Z3Label2Minus == "-"

Z3Label2 == "+"

\* find_model_or_equivalence, after both checks gave no model
Z3Equivalent(x1, x2) == x1 = "unsat" /\ x2 = "unsat"

\* ------------------------------------------------- the external solver
\* t.remaining() as solve_with_cvc4 receives it
remaining(t) == CASE t = "left" -> 1 [] t = "zero" -> 0 [] OTHER -> -1

\* solve_with_cvc4: the timeout handed to subprocess.run; 0.0 means none
to(timeout) ==
    IF timeout = 0 THEN [none |-> TRUE, secs |-> 0] ELSE [none |-> FALSE, secs |-> timeout]

\* What subprocess.run can do on an assertion set whose models are S, under
\* the timeout x (none: no limit; negative: already expired).
ProcTimeout == [kind |-> "timeout", returncode |-> 0, line |-> "", m |-> NoStructure]
ProcExit(code, line, m) == [kind |-> "exit", returncode |-> code, line |-> line, m |-> m]

ProcResults(S, x) ==
    IF ~x.none /\ x.secs < 0
    THEN {ProcTimeout}
    ELSE {ProcExit(0, "sat", m) : m \in S}
         \cup (IF S = {} THEN {ProcExit(0, "unsat", NoStructure)} ELSE {})
         \cup {ProcExit(0, "unknown", NoStructure),
               ProcExit(0, "weird", NoStructure),
               ProcExit(0, "", NoStructure),
               ProcExit(1, "", NoStructure)}
         \cup (IF ~x.none THEN {ProcTimeout} ELSE {})

\* solve_with_cvc4 on the subprocess's result p.  line "" stands for an
\* empty output (lines[0] raises IndexError).
solve_with_cvc4(p) ==
    IF p.kind = "timeout"
    THEN [raised |-> "", res |-> "unknown", m |-> NoStructure]
    ELSE IF p.returncode = 0
    THEN CASE p.line = "unsat"   -> [raised |-> "", res |-> "unsat", m |-> NoStructure]
           [] p.line = "unknown" -> [raised |-> "", res |-> "unknown", m |-> NoStructure]
           [] p.line = "sat"     -> [raised |-> "", res |-> "sat", m |-> p.m]
           [] p.line = ""        -> [raised |-> "IndexError", res |-> "none", m |-> NoStructure]
           [] OTHER              -> [raised |-> "AssertionError", res |-> "none", m |-> NoStructure]
    ELSE [raised |-> "", res |-> "unknown", m |-> NoStructure]

\* a variant that gives the first check's model the other label
Cvc4Label1Swapped == "+"

Cvc4Label1 == "-"
Cvc4Label2 == "+"

\* a variant that reports equivalence as soon as one check is unsat
Cvc4EquivalentEither(x1, x2) == x1 = "unsat" \/ x2 = "unsat"

\* find_model_or_equivalence_cvc4, after both checks gave no model
Cvc4Equivalent(x1, x2) == x1 = "unsat" /\ x2 = "unsat"

NoProc == [kind |-> "none", returncode |-> 0, line |-> "", m |-> NoStructure]
NoCvc  == [raised |-> "", res |-> "none", m |-> NoStructure]

\* ------------------------------------------------------- the Separator
\* add_model(model) -> identifier: the position at which it is registered
add_model(sm, m) == [ident |-> Len(sm), sep_models |-> Append(sm, m)]

Range(q) == {q[i] : i \in 1..Len(q)}

\* a formula f honours the constraints: true on every positive model, false
\* on every negative one, and on no (x, y) of imp true on x and false on y
Consistent(f, sm, pos, neg, imp) ==
    /\ \A i \in Range(pos) : evaluate(f, sm[i + 1].m)
    /\ \A i \in Range(neg) : ~evaluate(f, sm[i + 1].m)
    /\ \A e \in Range(imp) : evaluate(f, sm[e[1] + 1].m) => evaluate(f, sm[e[2] + 1].m)

\* separate(pos, neg, imp, ...): a consistent formula, none (no candidate
\* within the limits), or a TimeoutException from the timer
SepFormula(f) == [kind |-> "formula", f |-> f]
SepNone == [kind |-> "none", f |-> {}]
SepTimeout == [kind |-> "timeout", f |-> {}]

separate_results(sm, pos, neg, imp) ==
    {SepFormula(f) : f \in {g \in SUBSET Structures : Consistent(g, sm, pos, neg, imp)}}
    \cup {SepNone, SepTimeout}

SepCall(pos, neg, imp) == [pos |-> pos, neg |-> neg, imp |-> imp]

\* ------------------------------------------------------------- learn
\* a variant that files the models by the opposite test
IsPositiveNegated(label) == label # "+"

\* r.label.startswith("+")
IsPositive(label) == label = "+"

\* The embedded backend, first check: fm(current, formula)
Z3Check1 ==
    /\ mode = "learn" /\ pc = "loop" /\ no_cvc4
    /\ \E o \in fm(solver, current, formula, ct) :
        /\ ct' = o.t
        /\ solver' = o.solver
        /\ issued' = <<Issued(CurrentNotFormula, 0, o.res)>>
        /\ r2' = "none"
        /\ IF o.raised
           THEN /\ Raise("TimeoutException", "")
                /\ r1' = "none" /\ k' = 0
           ELSE /\ r1' = o.res
                /\ pc' = (IF FirstGotModel(o.m) THEN "z3_min1" ELSE "z3_check2")
                /\ k' = (IF FirstGotModel(o.m) THEN 1 ELSE 0)
                /\ UNCHANGED <<reason, exc>>
    /\ nqueries' = nqueries + 1
    /\ UNCHANGED objVars
    /\ UNCHANGED <<cfgVars, success, current, models, r, p_constraints, n_constraints, c,
                   mapping, st, sepVars, extVars, ncex>>

\* One iteration of a minimization loop, on the direction (a, b), whose
\* witness gets the label lab.  Iterations beyond MaxK that give no model are
\* not followed one by one: the loop ends in its "assert False".
Z3Min(here, a, b, dir, lab) ==
    /\ mode = "learn" /\ pc = here
    /\ \E o \in fm(bound_sort_counts(solver_push(solver), k), a, b, ct) :
        /\ ct' = o.t
        /\ solver' = (IF o.raised THEN o.solver ELSE solver_pop(o.solver))
        /\ issued' = Append(issued, Issued(dir, k, o.res))
        /\ IF o.raised
           THEN /\ Raise("TimeoutException", "")
                /\ UNCHANGED <<r, k, ncex>>
           ELSE IF GotModel(o.m)
           THEN /\ r' = extract_model(o.m, lab)
                /\ pc' = "check_time"
                /\ ncex' = ncex + 1
                /\ UNCHANGED <<k, reason, exc>>
           ELSE IF k < MaxK
           THEN /\ k' = k + 1
                /\ UNCHANGED <<r, pc, reason, exc, ncex>>
           ELSE /\ Raise("AssertionError", "")
                /\ UNCHANGED <<r, k, ncex>>
    /\ UNCHANGED objVars
    /\ UNCHANGED <<cfgVars, success, current, models, r1, r2, p_constraints,
                   n_constraints, c, mapping, st, sepVars, extVars, nqueries>>

Z3Min1 == Z3Min("z3_min1", current, formula, CurrentNotFormula, Z3Label1)

\* The embedded backend, second check: fm(formula, current), and the end of
\* find_model_or_equivalence when it gives no model either
Z3Check2 ==
    /\ mode = "learn" /\ pc = "z3_check2"
    /\ \E o \in fm(solver, formula, current, ct) :
        /\ ct' = o.t
        /\ solver' = o.solver
        /\ issued' = Append(issued, Issued(FormulaNotCurrent, 0, o.res))
        /\ IF o.raised
           THEN /\ Raise("TimeoutException", "")
                /\ UNCHANGED <<r, r2, k>>
           ELSE /\ r2' = o.res
                /\ IF GotModel(o.m)
                   THEN /\ pc' = "z3_min2" /\ k' = 1
                        /\ UNCHANGED <<r, reason, exc>>
                   ELSE IF Z3Equivalent(r1, o.res)
                   THEN /\ pc' = "check_time" /\ r' = NoModel
                        /\ UNCHANGED <<k, reason, exc>>
                   ELSE /\ Raise("RuntimeError", MsgZ3)
                        /\ UNCHANGED <<k, r>>
    /\ UNCHANGED objVars
    /\ UNCHANGED <<cfgVars, success, current, models, r1, p_constraints,
                   n_constraints, c, mapping, st, sepVars, extVars, nqueries, ncex>>

Z3Min2 == Z3Min("z3_min2", formula, current, FormulaNotCurrent, Z3Label2)

\* One call of solve_with_cvc4 on the direction (a, b) with the timer at t:
\* the subprocess's result, what solve_with_cvc4 returns, the timer afterwards
Cvc4Calls(x, t) ==
    {[proc |-> p, cvc |-> solve_with_cvc4(p), t |-> t2] :
        <<p, t2>> \in {y \in ProcResults(Asserted(x), to(remaining(t))) \X After(t) :
                          y[1].kind = "timeout" => y[2] = "over"}}

\* "s.push(); s.add(toZ3(a, env)); s.add(z3.Not(toZ3(b, env)))"
Cvc4Pushed(x, a, b) == solver_add(solver_add(solver_push(x), a), NotZ3(b))

\* The external backend, first check: current AND NOT formula
Cvc4Check1 ==
    /\ mode = "learn" /\ pc = "loop" /\ ~no_cvc4
    /\ \E o \in Cvc4Calls(Cvc4Pushed(solver, current, formula), ct) :
        /\ ct' = o.t /\ proc' = o.proc /\ cvc' = o.cvc
        /\ solver' = (IF o.cvc.raised # "" THEN Cvc4Pushed(solver, current, formula)
                      ELSE solver_pop(Cvc4Pushed(solver, current, formula)))
        /\ issued' = <<Issued(CurrentNotFormula, 0, o.cvc.res)>>
        /\ r2' = "none"
        /\ ncex' = (IF o.cvc.m # NoStructure THEN ncex + 1 ELSE ncex)
        /\ IF o.cvc.raised # ""
           THEN /\ Raise(o.cvc.raised, "")
                /\ r1' = "none"
                /\ UNCHANGED r
           ELSE /\ r1' = o.cvc.res
                /\ IF FirstGotModel(o.cvc.m)
                   THEN /\ r' = [m |-> o.cvc.m, label |-> Cvc4Label1]
                        /\ pc' = "check_time"
                   ELSE /\ r' = r
                        /\ pc' = "cvc4_check2"
                /\ UNCHANGED <<reason, exc>>
    /\ nqueries' = nqueries + 1
    /\ UNCHANGED objVars
    /\ UNCHANGED <<cfgVars, success, current, models, k, p_constraints, n_constraints, c,
                   mapping, st, sepVars>>

\* The external backend, second check: formula AND NOT current, and the end
\* of find_model_or_equivalence_cvc4 when it gives no model either
Cvc4Check2 ==
    /\ mode = "learn" /\ pc = "cvc4_check2"
    /\ \E o \in Cvc4Calls(Cvc4Pushed(solver, formula, current), ct) :
        /\ ct' = o.t /\ proc' = o.proc /\ cvc' = o.cvc
        /\ solver' = (IF o.cvc.raised # "" THEN Cvc4Pushed(solver, formula, current)
                      ELSE solver_pop(Cvc4Pushed(solver, formula, current)))
        /\ issued' = Append(issued, Issued(FormulaNotCurrent, 0, o.cvc.res))
        /\ ncex' = (IF o.cvc.m # NoStructure THEN ncex + 1 ELSE ncex)
        /\ IF o.cvc.raised # ""
           THEN /\ Raise(o.cvc.raised, "")
                /\ UNCHANGED <<r, r2>>
           ELSE /\ r2' = o.cvc.res
                /\ IF GotModel(o.cvc.m)
                   THEN /\ r' = [m |-> o.cvc.m, label |-> Cvc4Label2]
                        /\ pc' = "check_time"
                        /\ UNCHANGED <<reason, exc>>
                   ELSE IF Cvc4Equivalent(r1, o.cvc.res)
                   THEN /\ r' = NoModel
                        /\ pc' = "check_time"
                        /\ UNCHANGED <<reason, exc>>
                   ELSE /\ Raise("RuntimeError", MsgCVC4)
                        /\ UNCHANGED r
    /\ UNCHANGED objVars
    /\ UNCHANGED <<cfgVars, success, current, models, r1, k, p_constraints, n_constraints,
                   c, mapping, st, sepVars, nqueries>>

\* After the query: counterexample_timer.check_time(), then success when the
\* query reported equivalence
CheckTime ==
    /\ mode = "learn" /\ pc = "check_time"
    /\ IF Exceeded(ct)
       THEN /\ Raise("TimeoutException", "")
            /\ UNCHANGED success
       ELSE IF r = NoModel
       THEN /\ success' = TRUE
            /\ pc' = "done"
            /\ UNCHANGED <<reason, exc>>
       ELSE /\ pc' = "add_model"
            /\ UNCHANGED <<success, reason, exc>>
    /\ UNCHANGED <<solver, objVars>>
    /\ UNCHANGED <<cfgVars, current, models, localVars, timerVars, sepVars, extVars, histVars>>

\* Register the counterexample and file its identifier by its label
AddModel ==
    /\ mode = "learn" /\ pc = "add_model"
    /\ LET a == add_model(sep_models, r) IN
        /\ sep_models' = a.sep_models
        /\ models' = Append(models, r)
        /\ IF IsPositive(r.label)
           THEN /\ p_constraints' = Append(p_constraints, a.ident)
                /\ UNCHANGED n_constraints
           ELSE /\ n_constraints' = Append(n_constraints, a.ident)
                /\ UNCHANGED p_constraints
    /\ pc' = "separate"
    /\ UNCHANGED <<solver, objVars>>
    /\ UNCHANGED <<cfgVars, success, current, reason, r, r1, r2, k, c, mapping, exc,
                   timerVars, sep_calls, extVars, histVars>>

\* a variant without the break: the loop goes on with the old hypothesis
NoCandidateNoBreak ==
    /\ reason' = MsgSeparate
    /\ pc' = "loop"
    /\ current' = current

\* "if c is None": the reason is recorded and the loop is left
NoCandidate ==
    /\ reason' = MsgSeparate
    /\ pc' = "done"
    /\ current' = current

\* The Separator's search and what learn does with its result
Separate ==
    /\ mode = "learn" /\ pc = "separate"
    /\ sep_calls' = Append(sep_calls, SepCall(p_constraints, n_constraints, <<>>))
    /\ \E o \in separate_results(sep_models, p_constraints, n_constraints, <<>>) :
        /\ c' = o
        /\ IF o.kind = "timeout"
           THEN /\ Raise("TimeoutException", "")
                /\ st' = "over"
                /\ UNCHANGED current
           ELSE IF o.kind = "none"
           THEN /\ NoCandidate
                /\ UNCHANGED <<exc, st>>
           ELSE /\ current' = o.f
                /\ pc' = "loop"
                /\ UNCHANGED <<reason, exc, st>>
    /\ UNCHANGED <<solver, objVars>>
    /\ UNCHANGED <<cfgVars, success, models, r, r1, r2, k, p_constraints, n_constraints,
                   mapping, ct, sep_models, extVars, histVars>>

NoResult == [kind |-> "unset", f |-> {}]

\* ----------------------------------------------------------- separate
BatchLabels == {"a", "b"}

RECURSIVE Concat(_, _)
\* [x for a in labels for x in mapping[a]]
Concat(labels, mp) ==
    IF labels = <<>> THEN <<>> ELSE mp[Head(labels)] \o Concat(Tail(labels), mp)

RECURSIVE Cross(_, _)
\* [(x, y) for x in xs for y in ys]
Cross(xs, ys) ==
    IF xs = <<>> THEN <<>>
    ELSE [j \in 1..Len(ys) |-> <<Head(xs), ys[j]>>] \o Cross(Tail(xs), ys)

RECURSIVE ImpPairs(_, _)
\* [(x, y) for a, b in imps for x in mapping[a] for y in mapping[b]]
ImpPairs(imps, mp) ==
    IF imps = <<>> THEN <<>>
    ELSE Cross(mp[Head(imps)[1]], mp[Head(imps)[2]]) \o ImpPairs(Tail(imps), mp)

\* a variant that stops registering one model early
AllRegisteredEarly(registered, given) == Len(registered) + 1 >= Len(given)

\* "for m in f.models" has gone through every model
AllRegistered(registered, given) == Len(registered) = Len(given)

\* result.models = f.models, and the empty defaultdict(list)
BatchStart ==
    /\ mode = "separate" /\ pc = "b_start"
    /\ models' = f_models
    /\ mapping' = [l \in BatchLabels |-> <<>>]
    /\ pc' = (IF AllRegistered(<<>>, f_models) THEN "b_separate" ELSE "b_register")
    /\ UNCHANGED <<solver, objVars>>
    /\ UNCHANGED <<cfgVars, success, current, reason, r, r1, r2, k, p_constraints,
                   n_constraints, c, exc, timerVars, sepVars, extVars, histVars>>

\* One iteration of "for m in f.models": mapping[m.label].append(add_model(m))
BatchAddModel ==
    /\ mode = "separate" /\ pc = "b_register"
    /\ LET m == f_models[Len(sep_models) + 1]
           a == add_model(sep_models, m) IN
        /\ sep_models' = a.sep_models
        /\ mapping' = [mapping EXCEPT ![m.label] = Append(@, a.ident)]
        /\ pc' = (IF AllRegistered(a.sep_models, f_models) THEN "b_separate" ELSE "b_register")
    /\ UNCHANGED <<solver, objVars>>
    /\ UNCHANGED <<cfgVars, resultVars, r, r1, r2, k, p_constraints, n_constraints, c,
                   exc, timerVars, sep_calls, extVars, histVars>>

\* The single search of separate and what it does with the result
BatchSeparate ==
    /\ mode = "separate" /\ pc = "b_separate"
    /\ LET p == Concat(constraint_pos, mapping)
           n == Concat(constraint_neg, mapping)
           i == ImpPairs(constraint_imp, mapping) IN
        /\ p_constraints' = p
        /\ n_constraints' = n
        /\ sep_calls' = Append(sep_calls, SepCall(p, n, i))
        /\ \E o \in separate_results(sep_models, p, n, i) :
            /\ c' = o
            /\ IF o.kind = "timeout"
               THEN /\ Raise("TimeoutException", "")
                    /\ st' = "over"
                    /\ UNCHANGED <<current, success>>
               ELSE IF o.kind = "none"
               THEN /\ reason' = MsgSeparate
                    /\ pc' = "done"
                    /\ UNCHANGED <<current, success, exc, st>>
               ELSE /\ current' = o.f
                    /\ success' = TRUE
                    /\ pc' = "done"
                    /\ UNCHANGED <<reason, exc, st>>
    /\ UNCHANGED <<solver, objVars>>
    /\ UNCHANGED <<cfgVars, models, r, r1, r2, k, mapping, ct, sep_models, extVars, histVars>>

\* ------------------------------------------------- Signature and Model
\* every sort name that occurs, in the order sorted() puts strings in
AllSortNames == <<"A", "B", "X">>
sorted(S) == SelectSeq(AllSortNames, LAMBDA x : x \in S)

\* Signature.finalize_sorts: the sorts in sorted order, each with its index
finalize_sorts(sig) ==
    LET sort_names == sorted(sig.sorts) IN
    [sig EXCEPT !.sort_names = sort_names,
                !.sort_indices = [x \in sig.sorts |->
                                    (CHOOSE i \in 1..Len(sort_names) : sort_names[i] = x) - 1]]

\* a signature with two sorts, a constant, a unary relation and a unary
\* function, as built by Signature() and its fields' assignments
Sig0 ==
    [sorts |-> {"A", "B"},
     sort_names |-> <<>>,
     sort_indices |-> <<>>,
     constants |-> [c |-> "A"],
     relations |-> [r |-> <<"A">>],
     functions |-> [f |-> <<<<"A">>, "B">>]]

Sig == finalize_sorts(Sig0)

\* Model.__init__(sig)
NewModel(sig) ==
    [label |-> "",
     names |-> <<>>,
     elems |-> <<>>,
     sorts |-> <<>>,
     elems_of_sort |-> <<>>,
     elems_of_sort_index |-> [i \in 1..Len(sig.sort_names) |-> <<>>],
     constants |-> <<>>,
     relations |-> [x \in DOMAIN sig.relations |-> {}],
     functions |-> [x \in DOMAIN sig.functions |-> <<>>]]

\* d[key] of a defaultdict(list)
DefaultList(d, key) == IF key \in DOMAIN d THEN d[key] ELSE <<>>

Returned(m, v) == [M |-> m, ret |-> v, raised |-> ""]
Raised(m, e) == [M |-> m, ret |-> "", raised |-> e]

\* a variant that numbers the elements from 1
add_elem_from_one(m, name, sort) ==
    IF name \in DOMAIN m.elems
    THEN Returned(m, "False")
    ELSE LET elem_id == Len(m.names) + 1
             m1 == [m EXCEPT !.elems = (name :> elem_id) @@ @,
                             !.elems_of_sort =
                                 (sort :> Append(DefaultList(@, sort), elem_id)) @@ @]
         IN IF sort \notin DOMAIN Sig.sort_indices
            THEN Raised(m1, "KeyError")
            ELSE Returned([m1 EXCEPT
                               !.elems_of_sort_index[Sig.sort_indices[sort] + 1] =
                                   Append(@, elem_id),
                               !.sorts = Append(@, sort),
                               !.names = Append(@, name)], "True")

\* Model.add_elem(name, sort).  The index of an undeclared sort is a KeyError
\* raised after elems and elems_of_sort were written.
add_elem(m, name, sort) ==
    IF name \in DOMAIN m.elems
    THEN Returned(m, "False")
    ELSE LET elem_id == Len(m.names)
             m1 == [m EXCEPT !.elems = (name :> elem_id) @@ @,
                             !.elems_of_sort =
                                 (sort :> Append(DefaultList(@, sort), elem_id)) @@ @]
         IN IF sort \notin DOMAIN Sig.sort_indices
            THEN Raised(m1, "KeyError")
            ELSE Returned([m1 EXCEPT
                               !.elems_of_sort_index[Sig.sort_indices[sort] + 1] =
                                   Append(@, elem_id),
                               !.sorts = Append(@, sort),
                               !.names = Append(@, name)], "True")

\* a variant that assigns the constant again when it is already there
add_constant_overwrite(m, name, elem) ==
    IF elem \notin DOMAIN m.elems
    THEN Raised(m, "KeyError")
    ELSE Returned([m EXCEPT !.constants = (name :> m.elems[elem]) @@ @],
                  IF name \in DOMAIN m.constants THEN "False" ELSE "True")

\* Model.add_constant(name, elem)
add_constant(m, name, elem) ==
    IF name \in DOMAIN m.constants
    THEN Returned(m, "False")
    ELSE IF elem \notin DOMAIN m.elems
    THEN Raised(m, "KeyError")
    ELSE Returned([m EXCEPT !.constants = (name :> m.elems[elem]) @@ @], "True")

\* tuple(self.elems[a] for a in args)
ElemTuple(m, args) == [i \in 1..Len(args) |-> m.elems[args[i]]]
AllKnown(m, args) == \A i \in 1..Len(args) : args[i] \in DOMAIN m.elems

\* Model.add_relation(rel, args) -> None
add_relation(m, rel, args) ==
    IF rel \notin DOMAIN m.relations \/ ~AllKnown(m, args)
    THEN Raised(m, "KeyError")
    ELSE Returned([m EXCEPT !.relations[rel] = @ \cup {ElemTuple(m, args)}], "None")

\* Model.add_function(func, args, result) -> None
add_function(m, func, args, result) ==
    IF func \notin DOMAIN m.functions \/ ~AllKnown(m, args) \/ result \notin DOMAIN m.elems
    THEN Raised(m, "KeyError")
    ELSE Returned([m EXCEPT !.functions[func] =
                                (ElemTuple(m, args) :> m.elems[result]) @@ @], "None")


\* ------------------------------------------------------- terms, formulas
Var(v) == [kind |-> "Var", var |-> v]
Func(g, args) == [kind |-> "Func", f |-> g, args |-> args]
And(cs) == [kind |-> "And", c |-> cs]
Or(cs) == [kind |-> "Or", c |-> cs]
Not(g) == [kind |-> "Not", f |-> g]
Equal(a, b) == [kind |-> "Equal", args |-> <<a, b>>]
Relation(rel, args) == [kind |-> "Relation", rel |-> rel, args |-> args]
Forall(v, sort, g) == [kind |-> "Forall", var |-> v, sort |-> sort, f |-> g]
Exists(v, sort, g) == [kind |-> "Exists", var |-> v, sort |-> sort, f |-> g]

RECURSIVE free_vars_term(_)
RECURSIVE free_vars_terms(_)
\* free_vars_term: every variable of the term (constants included)
free_vars_term(t) ==
    IF t.kind = "Var" THEN {t.var} ELSE free_vars_terms(t.args)
free_vars_terms(ts) ==
    IF ts = <<>> THEN {} ELSE free_vars_term(Head(ts)) \cup free_vars_terms(Tail(ts))

RECURSIVE free_vars(_)
RECURSIVE free_vars_all(_)
\* free_vars(f)
free_vars(g) ==
    CASE g.kind \in {"And", "Or"} -> free_vars_all(g.c)
      [] g.kind = "Not" -> free_vars(g.f)
      [] g.kind \in {"Equal", "Relation"} -> free_vars_terms(g.args)
      [] OTHER -> free_vars(g.f) \ {g.var}
free_vars_all(cs) ==
    IF cs = <<>> THEN {} ELSE free_vars(Head(cs)) \cup free_vars_all(Tail(cs))

\* ------------------------------------------------------------------ check
\* the outcome of an evaluation: a value, or the exception raised
Value(v) == [raised |-> "", v |-> v]
Error(e) == [raised |-> e, v |-> 0]
CheckError(e) == [raised |-> e, v |-> FALSE]

RECURSIVE resolve_term(_, _, _)
RECURSIVE resolve_terms(_, _, _)
\* resolve_term(term, model, assumptions): model.functions[term.f] is
\* subscripted before the arguments are resolved
resolve_term(t, m, asg) ==
    IF t.kind = "Var"
    THEN IF t.var \in DOMAIN asg THEN Value(asg[t.var])
         ELSE IF t.var \in DOMAIN m.constants THEN Value(m.constants[t.var])
         ELSE Error("RuntimeError")
    ELSE IF t.f \notin DOMAIN m.functions THEN Error("KeyError")
         ELSE LET a == resolve_terms(t.args, m, asg) IN
              IF a.raised # "" THEN Error(a.raised)
              ELSE IF a.v \notin DOMAIN m.functions[t.f] THEN Error("KeyError")
              ELSE Value(m.functions[t.f][a.v])

\* [resolve_term(a, model, assumptions) for a in args], in order
resolve_terms(ts, m, asg) ==
    IF ts = <<>> THEN [raised |-> "", v |-> <<>>]
    ELSE LET h == resolve_term(Head(ts), m, asg) IN
         IF h.raised # "" THEN [raised |-> h.raised, v |-> <<>>]
         ELSE LET rest == resolve_terms(Tail(ts), m, asg) IN
              IF rest.raised # "" THEN rest
              ELSE [raised |-> "", v |-> <<h.v>> \o rest.v]

RECURSIVE check(_, _, _)
RECURSIVE check_all(_, _, _)
RECURSIVE check_any(_, _, _)
RECURSIVE check_forall(_, _, _, _)
RECURSIVE check_exists(_, _, _, _)
\* check(formula, model, assumptions)
check(g, m, asg) ==
    CASE g.kind = "And" -> check_all(g.c, m, asg)
      [] g.kind = "Or" -> check_any(g.c, m, asg)
      [] g.kind = "Not" ->
            LET x == check(g.f, m, asg) IN
            IF x.raised # "" THEN x ELSE Value(~x.v)
      [] g.kind = "Equal" ->
            LET a == resolve_term(g.args[1], m, asg) IN
            IF a.raised # "" THEN CheckError(a.raised)
            ELSE LET b == resolve_term(g.args[2], m, asg) IN
                 IF b.raised # "" THEN CheckError(b.raised) ELSE Value(a.v = b.v)
      [] g.kind = "Relation" ->
            LET a == resolve_terms(g.args, m, asg) IN
            IF a.raised # "" THEN CheckError(a.raised)
            ELSE IF g.rel \notin DOMAIN m.relations THEN CheckError("KeyError")
            ELSE Value(a.v \in m.relations[g.rel])
      [] g.kind = "Forall" -> check_forall(g, DefaultList(m.elems_of_sort, g.sort), m, asg)
      [] g.kind = "Exists" -> check_exists(g, DefaultList(m.elems_of_sort, g.sort), m, asg)
      [] OTHER -> CheckError("RuntimeError")

\* "for f in formula.c: if not check(f, ...): return False"
check_all(cs, m, asg) ==
    IF cs = <<>> THEN Value(TRUE)
    ELSE LET x == check(Head(cs), m, asg) IN
         IF x.raised # "" \/ ~x.v THEN x ELSE check_all(Tail(cs), m, asg)

\* "for f in formula.c: if check(f, ...): return True"
check_any(cs, m, asg) ==
    IF cs = <<>> THEN Value(FALSE)
    ELSE LET x == check(Head(cs), m, asg) IN
         IF x.raised # "" \/ x.v THEN x ELSE check_any(Tail(cs), m, asg)

\* "for e in universe: if not check(formula.f, ..., {**assumptions, var: e})"
check_forall(g, universe, m, asg) ==
    IF universe = <<>> THEN Value(TRUE)
    ELSE LET x == check(g.f, m, (g.var :> Head(universe)) @@ asg) IN
         IF x.raised # "" \/ ~x.v THEN x ELSE check_forall(g, Tail(universe), m, asg)

check_exists(g, universe, m, asg) ==
    IF universe = <<>> THEN Value(FALSE)
    ELSE LET x == check(g.f, m, (g.var :> Head(universe)) @@ asg) IN
         IF x.raised # "" \/ x.v THEN x ELSE check_exists(g, Tail(universe), m, asg)

RECURSIVE product(_)
\* itertools.product(*lists): the tuples with one entry from each list
product(lists) ==
    IF lists = <<>> THEN {<<>>}
    ELSE {<<x>> \o t : x \in Range(Head(lists)), t \in product(Tail(lists))}

\* model_is_complete_wrt_sig(model, sig)
model_is_complete_wrt_sig(m, sig) ==
    /\ \A x \in sig.sorts : Len(DefaultList(m.elems_of_sort, x)) # 0
    /\ \A x \in DOMAIN sig.constants : x \in DOMAIN m.constants
    /\ \A x \in DOMAIN sig.relations : x \in DOMAIN m.relations
    /\ \A x \in DOMAIN sig.functions :
        /\ x \in DOMAIN m.functions
        /\ \A t \in product([i \in 1..Len(sig.functions[x][1]) |->
                                DefaultList(m.elems_of_sort, sig.functions[x][1][i])]) :
              t \in DOMAIN m.functions[x]

NoCheck == [f |-> 0, raised |-> "", v |-> FALSE]

\* ------------------------------------------------------------ _parse_model
\* the lines that name elements: "(declare-sort S 0)" and "; rep: name"
DeclareSort(x) == [kind |-> "declare-sort", name |-> x]
Rep(x) == [kind |-> "rep", name |-> x]

\* the nodes of the parsed text
Atom(x) == [kind |-> "Atom", name |-> x, children |-> <<>>]
Parens(xs) == [kind |-> "Parens", name |-> "", children |-> xs]

\* "(define-fun name ((bv type) ...) result value)"
DefineFun(name, bvs, value) == [name |-> name, bvs |-> bvs, value |-> value]

\* the outcome of _eval: a string, or the exception raised
EvalValue(v) == [raised |-> "", v |-> v]
EvalError(e) == [raised |-> e, v |-> ""]

RECURSIVE _eval(_, _)
RECURSIVE _eval_and(_, _)
\* _eval(env, value)
_eval(e, value) ==
    IF value.kind = "Atom"
    THEN EvalValue(IF value.name \in DOMAIN e THEN e[value.name] ELSE value.name)
    ELSE IF value.children = <<>> THEN EvalError("IndexError")
    ELSE LET head == value.children[1]
             n == Len(value.children) IN
         IF head.kind # "Atom" THEN EvalError("AssertionError")
         ELSE CASE head.name = "ite" ->
                     IF n # 4 THEN EvalError("AssertionError")
                     ELSE LET x == _eval(e, value.children[2]) IN
                          IF x.raised # "" THEN x
                          ELSE IF x.v = "true" THEN _eval(e, value.children[3])
                          ELSE _eval(e, value.children[4])
                [] head.name = "=" ->
                     IF n # 3 THEN EvalError("AssertionError")
                     ELSE LET a == _eval(e, value.children[2]) IN
                          IF a.raised # "" THEN a
                          ELSE LET b == _eval(e, value.children[3]) IN
                               IF b.raised # "" THEN b
                               ELSE EvalValue(IF a.v = b.v THEN "true" ELSE "false")
                [] head.name = "and" ->
                     IF n <= 1 THEN EvalError("AssertionError")
                     ELSE _eval_and(e, Tail(value.children))
                [] head.name = "not" ->
                     IF n # 2 THEN EvalError("AssertionError")
                     ELSE LET x == _eval(e, value.children[2]) IN
                          IF x.raised # "" THEN x
                          ELSE EvalValue(IF x.v = "true" THEN "false" ELSE "true")
                [] OTHER -> EvalError("AssertionError")

\* "for i in value[1:]: if _eval(env, i) != 'true': return 'false'"
_eval_and(e, xs) ==
    IF xs = <<>> THEN EvalValue("true")
    ELSE LET x == _eval(e, Head(xs)) IN
         IF x.raised # "" THEN x
         ELSE IF x.v # "true" THEN EvalValue("false")
         ELSE _eval_and(e, Tail(xs))

\* f"@uc_{sort}_0"
DefaultName(x) == "@uc_" \o x \o "_0"

RECURSIVE parse_elems(_, _, _)
\* "for l in lines": a declare-sort line sets last_sort, a rep line adds an
\* element of last_sort
parse_elems(ls, last_sort, m) ==
    IF ls = <<>> THEN Returned(m, "None")
    ELSE IF Head(ls).kind = "declare-sort"
    THEN parse_elems(Tail(ls), Head(ls).name, m)
    ELSE LET o == add_elem(m, Head(ls).name, last_sort) IN
         IF o.raised # "" THEN o ELSE parse_elems(Tail(ls), last_sort, o.M)

RECURSIVE default_elems(_, _)
\* "for sort in sig.sorts: if sort not in m.elems_of_sort: m.add_elem(...)",
\* the sorts in the order the set gives them in
default_elems(order, m) ==
    IF order = <<>> THEN Returned(m, "None")
    ELSE IF Head(order) \in DOMAIN m.elems_of_sort
    THEN default_elems(Tail(order), m)
    ELSE LET o == add_elem(m, DefaultName(Head(order)), Head(order)) IN
         IF o.raised # "" THEN o ELSE default_elems(Tail(order), o.M)

\* the orders a set of sorts can be iterated in
Orders(S) ==
    {q \in [1..Cardinality(S) -> S] : \A i, j \in 1..Cardinality(S) : q[i] = q[j] => i = j}

RECURSIVE PrependEach(_, _)
PrependEach(xs, rest) ==
    IF xs = <<>> THEN <<>>
    ELSE [j \in 1..Len(rest) |-> <<Head(xs)>> \o rest[j]] \o PrependEach(Tail(xs), rest)

RECURSIVE product_seq(_)
\* itertools.product(*lists), in the order it yields the tuples
product_seq(lists) ==
    IF lists = <<>> THEN <<<<>>>>
    ELSE PrependEach(Head(lists), product_seq(Tail(lists)))

\* [m.elems_of_sort[sort] for sort in sorts]
ElemsOfSorts(m, sorts) == [i \in 1..Len(sorts) |-> DefaultList(m.elems_of_sort, sorts[i])]

\* [m.names[x] for x in t]
NamesOf(m, t) == [i \in 1..Len(t) |-> m.names[t[i] + 1]]

\* dict(zip(bvs, args))
Zip(bvs, args) ==
    LET n == IF Len(bvs) < Len(args) THEN Len(bvs) ELSE Len(args) IN
    [x \in {bvs[i] : i \in 1..n} |->
        args[CHOOSE i \in 1..n : bvs[i] = x /\ \A j \in 1..n : bvs[j] = x => j <= i]]

RECURSIVE parse_relation(_, _, _)
\* the tuples on which the define-fun of a relation evaluates to 'true'
parse_relation(ts, item, m) ==
    IF ts = <<>> THEN Returned(m, "None")
    ELSE LET args == NamesOf(m, Head(ts))
             e == _eval(Zip(item.bvs, args), item.value) IN
         IF e.raised # "" THEN Raised(m, e.raised)
         ELSE IF e.v = "true"
         THEN LET o == add_relation(m, item.name, args) IN
              IF o.raised # "" THEN o ELSE parse_relation(Tail(ts), item, o.M)
         ELSE parse_relation(Tail(ts), item, m)

RECURSIVE parse_function(_, _, _)
\* the value of the define-fun of a function on every tuple
parse_function(ts, item, m) ==
    IF ts = <<>> THEN Returned(m, "None")
    ELSE LET args == NamesOf(m, Head(ts))
             e == _eval(Zip(item.bvs, args), item.value) IN
         IF e.raised # "" THEN Raised(m, e.raised)
         ELSE LET o == add_function(m, item.name, args, e.v) IN
              IF o.raised # "" THEN o ELSE parse_function(Tail(ts), item, o.M)

\* one define-fun item of the parsed model
parse_item(item, m) ==
    LET a == IF item.name \in DOMAIN Sig.constants
             THEN IF item.value.kind # "Atom" THEN Raised(m, "AssertionError")
                  ELSE add_constant(m, item.name, item.value.name)
             ELSE Returned(m, "None")
        b == IF a.raised = "" /\ item.name \in DOMAIN Sig.relations
             THEN parse_relation(product_seq(ElemsOfSorts(a.M, Sig.relations[item.name])),
                                 item, a.M)
             ELSE a
    IN IF b.raised = "" /\ item.name \in DOMAIN Sig.functions
       THEN parse_function(product_seq(ElemsOfSorts(b.M, Sig.functions[item.name][1])),
                           item, b.M)
       ELSE b

RECURSIVE SetToSeq(_)
SetToSeq(S) ==
    IF S = {} THEN <<>>
    ELSE LET x == CHOOSE y \in S : TRUE IN <<x>> \o SetToSeq(S \ {x})

\* m.names[m.elems_of_sort[sort][0]]
FirstOfSort(m, sort) ==
    IF DefaultList(m.elems_of_sort, sort) = <<>> THEN Raised(m, "IndexError")
    ELSE Returned(m, m.names[DefaultList(m.elems_of_sort, sort)[1] + 1])

RECURSIVE complete_constants(_, _)
\* "for c in sig.constants.keys(): if c not in m.constants: ..."
complete_constants(cs, m) ==
    IF cs = <<>> THEN Returned(m, "None")
    ELSE IF Head(cs) \in DOMAIN m.constants THEN complete_constants(Tail(cs), m)
    ELSE LET v == FirstOfSort(m, Sig.constants[Head(cs)]) IN
         IF v.raised # "" THEN v
         ELSE LET o == add_constant(m, Head(cs), v.ret) IN
              IF o.raised # "" THEN o ELSE complete_constants(Tail(cs), o.M)

\* "for rel in sig.relations.keys(): if rel not in m.relations: ..."
complete_relations(m) ==
    [m EXCEPT !.relations =
        [x \in (DOMAIN Sig.relations) \cup (DOMAIN m.relations) |->
            IF x \in DOMAIN m.relations THEN m.relations[x] ELSE {}]]

RECURSIVE complete_tuples(_, _, _, _)
\* "for t in itertools.product(...): if t not in m.functions[f]: ..."
complete_tuples(ts, g, v, m) ==
    IF ts = <<>> THEN Returned(m, "None")
    ELSE IF Head(ts) \in DOMAIN m.functions[g] THEN complete_tuples(Tail(ts), g, v, m)
    ELSE LET o == add_function(m, g, NamesOf(m, Head(ts)), v) IN
         IF o.raised # "" THEN o ELSE complete_tuples(Tail(ts), g, v, o.M)

RECURSIVE complete_functions(_, _)
\* "for f in sig.functions.keys(): ..."
complete_functions(fs, m) ==
    IF fs = <<>> THEN Returned(m, "None")
    ELSE LET v == FirstOfSort(m, Sig.functions[Head(fs)][2]) IN
         IF v.raised # "" THEN v
         ELSE LET o == complete_tuples(
                           product_seq(ElemsOfSorts(m, Sig.functions[Head(fs)][1])),
                           Head(fs), v.ret, m) IN
              IF o.raised # "" THEN o ELSE complete_functions(Tail(fs), o.M)

\* the completion pass and the assertion that ends _parse_model
completion(m) ==
    LET a == complete_constants(SetToSeq(DOMAIN Sig.constants), m)
        b == IF a.raised # "" THEN a
             ELSE complete_functions(SetToSeq(DOMAIN Sig.functions), complete_relations(a.M))
    IN IF b.raised # "" THEN b
       ELSE IF model_is_complete_wrt_sig(b.M, Sig) THEN Returned(b.M, "m")
       ELSE [Raised(b.M, "AssertionError") EXCEPT !.ret = "assert"]

InitParseIdle ==
    /\ p_lines = <<>> /\ p_items = <<>> /\ p_m = NewModel(Sig)
    /\ p_pc = "idle" /\ p_i = 0 /\ p_exc = "" /\ p_parsed = NewModel(Sig)

\* --------------------------------------------- the solver-symbol tables
\* a second signature: other sorts, and the relation r with other argument
\* sorts
Sig1 ==
    finalize_sorts([sorts |-> {"A", "X"},
                    sort_names |-> <<>>,
                    sort_indices |-> <<>>,
                    constants |-> [c |-> "A"],
                    relations |-> [r |-> <<"A", "X">>],
                    functions |-> <<>>])

\* the signatures learn is called with
RunSigs == <<Sig, Sig1>>

\* the callers of learn
Callers == {1, 2}

\* z3.DeclareSort(sort): the sort of that name
DeclareSortZ3(x) == x

\* z3.Function(name, *[sorts_to_z3[x] for x in sorts], range) over the table t
FunctionZ3(name, sorts, range, t) ==
    [name |-> name, domain |-> [i \in 1..Len(sorts) |-> t[sorts[i]]], range |-> range]

\* "sorts_to_z3[sort] = z3.DeclareSort(sort)" for every sort of sig: entries
\* are set, none is removed
init_sorts(sig, t) ==
    [x \in (DOMAIN t) \cup sig.sorts |->
        IF x \in sig.sorts THEN DeclareSortZ3(x) ELSE t[x]]

\* "z3_rel_func[rel] = z3.Function(...)" for every relation, then for every
\* function, of sig, with the sorts table st
init_rel_func(sig, t, tsorts) ==
    [x \in (DOMAIN t) \cup (DOMAIN sig.relations) \cup (DOMAIN sig.functions) |->
        IF x \in DOMAIN sig.functions
        THEN FunctionZ3(x, sig.functions[x][1], tsorts[sig.functions[x][2]], tsorts)
        ELSE IF x \in DOMAIN sig.relations
        THEN FunctionZ3(x, sig.relations[x], "Bool", tsorts)
        ELSE t[x]]

NoRun == [sig |-> 0, pc |-> "idle", symbol |-> "none"]

InitTables ==
    /\ sorts_to_z3 = <<>> /\ z3_rel_func = <<>>
    /\ runs = [i \in Callers |-> NoRun]
    /\ nruns = 0 /\ overlapped = FALSE

\* ------------------------------------------------------------ Environment
\* the variable names an Environment is asked about; "c" is also a constant
\* of the signature
VarNames == {"x", "y", "c"}

\* Environment.__init__(sig): nothing bound, an empty stack
NewEnvironment == [bound |-> <<>>, stack |-> <<>>]

\* Environment.bind(v, sort)
bind(e, v, sort) ==
    [bound |-> (v :> sort) @@ e.bound,
     stack |-> Append(e.stack, v)]

\* Environment.pop(), called with a non-empty stack: the name on top leaves
\* the stack, then "del self.bound[v]", a KeyError when v is not bound
pop(e) ==
    LET v == e.stack[Len(e.stack)]
        e1 == [e EXCEPT !.stack = SubSeq(e.stack, 1, Len(e.stack) - 1)]
    IN IF v \in DOMAIN e.bound
       THEN [env |-> [e1 EXCEPT !.bound = [x \in (DOMAIN e.bound) \ {v} |-> e.bound[x]]],
             raised |-> ""]
       ELSE [env |-> e1, raised |-> "KeyError"]

\* Environment.lookup_var(x): the bound sort, else the constant's sort, else None
lookup_var(e, x) ==
    IF x \in DOMAIN e.bound THEN e.bound[x]
    ELSE IF x \in DOMAIN Sig.constants THEN Sig.constants[x]
    ELSE "None"

\* what lookup_var returns for every name
Lookups(e) == [x \in VarNames |-> lookup_var(e, x)]

InitEnv ==
    /\ env = NewEnvironment /\ env_exc = "" /\ env_op = "none"
    /\ env_saved = <<>> /\ env_want = Lookups(NewEnvironment)


RECURSIVE SeqsUpTo(_, _)
\* the sequences over S of length at most n
SeqsUpTo(S, n) ==
    IF n = 0 THEN {<<>>}
    ELSE LET shorter == SeqsUpTo(S, n - 1) IN
         shorter \cup {Append(q, x) : q \in shorter, x \in S}

InitCommon ==
    /\ success = FALSE /\ current = OrEmpty /\ models = <<>> /\ reason = ""
    /\ r = NoModel /\ r1 = "none" /\ r2 = "none" /\ k = 0
    /\ p_constraints = <<>> /\ n_constraints = <<>> /\ c = NoResult
    /\ mapping = [l \in BatchLabels |-> <<>>]
    /\ exc = ""
    /\ ct = "left" /\ st = "left"
    /\ sep_models = <<>> /\ sep_calls = <<>>
    /\ proc = NoProc /\ cvc = NoCvc
    /\ nqueries = 0 /\ ncex = 0 /\ issued = <<>>
    /\ solver = NewSolver
    /\ M = NewModel(Sig) /\ op = [kind |-> "none", created |-> FALSE]
    /\ ret = "" /\ m_exc = ""
    /\ InitEnv
    /\ chk = NoCheck
    /\ InitTables

\* learn(sig, axioms, formula, timeout, args), after its set-up
InitLearn ==
    /\ mode = "learn"
    /\ no_cvc4 \in BOOLEAN
    /\ formula \in SUBSET Structures
    /\ f_models = <<>>
    /\ constraint_pos = <<>> /\ constraint_neg = <<>> /\ constraint_imp = <<>>
    /\ pc = "loop"

\* separate(f, timeout, args), after its set-up
InitSeparate ==
    /\ mode = "separate"
    /\ no_cvc4 = FALSE
    /\ formula = {}
    /\ f_models \in SeqsUpTo([m : Structures, label : BatchLabels], MaxBatch)
    /\ constraint_pos \in SeqsUpTo(BatchLabels, 1)
    /\ constraint_neg \in SeqsUpTo(BatchLabels, 1)
    /\ constraint_imp \in SeqsUpTo({<<"a", "b">>}, 1)
    /\ pc = "b_start"

Init == InitCommon /\ InitParseIdle /\ (InitLearn \/ InitSeparate)

Next ==
    \/ Z3Check1 \/ Z3Min1 \/ Z3Check2 \/ Z3Min2
    \/ Cvc4Check1 \/ Cvc4Check2
    \/ CheckTime \/ AddModel \/ Separate
    \/ BatchStart \/ BatchAddModel \/ BatchSeparate

Spec == Init /\ [][Next]_vars

\* the names given to elements, and the sorts add_elem is called with
NamePool == <<"e0", "e1", "e2", "e3">>
ElemNames == {NamePool[i] : i \in 1..MaxElems}
SortArgs == {"A", "B", "X"}
\* the names add_relation and add_function are called with
TupleNames == {NamePool[1], NamePool[2]}
ConstantNames == {"c"}

\* One call on the Model: its outcome becomes the state, and op records the
\* operation and whether the entry it adds was absent before the call.
Apply(kind, created, o) ==
    /\ m_exc = ""
    /\ chk = NoCheck      \* a Model is built before it is checked
    /\ M' = o.M
    /\ ret' = o.ret
    /\ m_exc' = o.raised
    /\ op' = [kind |-> kind, created |-> created]

LoopIdle ==
    UNCHANGED <<cfgVars, resultVars, pc, localVars, exc, timerVars, sepVars, extVars,
                histVars, solver>>

\* a call on the Model leaves the loop and every other object alone
ModelStep == LoopIdle /\ UNCHANGED <<envVars, chk, parseVars, tableVars>>

AddElem ==
    /\ mode = "model"
    /\ \E name \in ElemNames, sort \in SortArgs :
        Apply("add_elem", name \notin DOMAIN M.elems, add_elem(M, name, sort))
    /\ ModelStep

AddConstant ==
    /\ mode = "model"
    /\ \E name \in ConstantNames, elem \in ElemNames :
        Apply("add_constant", name \notin DOMAIN M.constants, add_constant(M, name, elem))
    /\ ModelStep

AddRelation ==
    /\ mode = "model"
    /\ \E a \in TupleNames :
        Apply("add_relation",
              AllKnown(M, <<a>>) /\ ElemTuple(M, <<a>>) \notin M.relations["r"],
              add_relation(M, "r", <<a>>))
    /\ ModelStep

AddFunction ==
    /\ mode = "model"
    /\ \E a \in TupleNames, b \in TupleNames :
        Apply("add_function",
              AllKnown(M, <<a>>) /\ ElemTuple(M, <<a>>) \notin DOMAIN M.functions["f"],
              add_function(M, "f", <<a>>, b))
    /\ ModelStep

\* a fresh Model over the finalized signature, nothing else running
InitModel ==
    /\ InitCommon
    /\ InitParseIdle
    /\ mode = "model"
    /\ no_cvc4 = FALSE
    /\ formula = {}
    /\ f_models = <<>>
    /\ constraint_pos = <<>> /\ constraint_neg = <<>> /\ constraint_imp = <<>>
    /\ pc = "idle"

NextModel == AddElem \/ AddConstant \/ AddRelation \/ AddFunction

SpecModel == InitModel /\ [][NextModel]_vars

\* ---------------------------------------------- the Environment in use
\* the deepest nesting of binds followed
MaxDepth == 3

\* a call on the Environment leaves the loop and every other object alone
EnvStep == LoopIdle /\ UNCHANGED <<modelVars, chk, parseVars, tableVars>>

\* env.bind(f.var, f.sort), as toZ3 does on entering a quantifier
Bind ==
    /\ mode = "env" /\ env_exc = ""
    /\ Len(env.stack) < MaxDepth
    /\ \E v \in VarNames, sort \in Sig.sorts :
        /\ env' = bind(env, v, sort)
        /\ env_saved' = Append(env_saved, Lookups(env))
    /\ env_op' = "bind"
    /\ UNCHANGED <<env_exc, env_want>>
    /\ EnvStep

\* env.pop(), as toZ3 does on leaving a quantifier: only after a bind that
\* is still open
Pop ==
    /\ mode = "env" /\ env_exc = ""
    /\ env.stack # <<>>
    /\ LET o == pop(env) IN
        /\ env' = o.env
        /\ env_exc' = o.raised
    /\ env_op' = "pop"
    /\ env_want' = env_saved[Len(env_saved)]
    /\ env_saved' = SubSeq(env_saved, 1, Len(env_saved) - 1)
    /\ EnvStep

\* a fresh Environment over the finalized signature, nothing else running
InitEnvironment ==
    /\ InitCommon
    /\ InitParseIdle
    /\ mode = "env"
    /\ no_cvc4 = FALSE
    /\ formula = {}
    /\ f_models = <<>>
    /\ constraint_pos = <<>> /\ constraint_neg = <<>> /\ constraint_imp = <<>>
    /\ pc = "idle"

NextEnv == Bind \/ Pop

SpecEnv == InitEnvironment /\ [][NextEnv]_vars

\* ------------------------------------------------ check on a built Model
\* the formulas check is called with, over the signature Sig
CheckFormulas ==
    <<Relation("r", <<Var("c")>>),
      Equal(Func("f", <<Var("c")>>), Func("f", <<Var("c")>>)),
      Forall("x", "A", Relation("r", <<Var("x")>>)),
      Exists("x", "A", Equal(Func("f", <<Var("x")>>), Func("f", <<Var("c")>>))),
      Not(Or(<<>>)),
      And(<<Not(Relation("r", <<Var("c")>>)),
            Forall("y", "B", Equal(Var("y"), Func("f", <<Var("c")>>)))>>),
      Forall("x", "A", Exists("y", "B", Equal(Func("f", <<Var("x")>>), Var("y")))),
      Relation("r", <<Var("x")>>)>>

\* check(formula, model), with no assumptions
Check ==
    /\ mode = "model" /\ m_exc = "" /\ chk = NoCheck
    /\ \E i \in 1..Len(CheckFormulas) :
        LET o == check(CheckFormulas[i], M, <<>>) IN
        chk' = [f |-> i, raised |-> o.raised, v |-> o.v]
    /\ LoopIdle
    /\ UNCHANGED <<modelVars, envVars, parseVars, tableVars>>

NextCheck == NextModel \/ Check

SpecCheck == InitModel /\ [][NextCheck]_vars

\* --------------------------------------------------- _parse_model in use
\* the most lines naming sorts and elements in a model text
MaxLines == 3

\* the element names the solver's text uses; the last is also the name
\* _parse_model gives the default element of sort A
RepNames == {"e0", "e1", DefaultName("A")}
ElemLines == {DeclareSort(x) : x \in Sig.sorts} \cup {Rep(x) : x \in RepNames}

\* what the text says of the constant, of the relation and of the function:
\* nothing, or one define-fun
ConstantItems ==
    {<<>>, <<DefineFun("c", <<>>, Atom("e0"))>>,
           <<DefineFun("c", <<>>, Atom(DefaultName("A")))>>}
RelationItems ==
    {<<>>, <<DefineFun("r", <<"x">>, Atom("true"))>>,
           <<DefineFun("r", <<"x">>, Parens(<<Atom("="), Atom("x"), Atom("e0")>>))>>}
FunctionItems ==
    {<<>>, <<DefineFun("f", <<"x">>, Atom("e1"))>>,
           <<DefineFun("f", <<"x">>,
                       Parens(<<Atom("ite"), Parens(<<Atom("="), Atom("x"), Atom("e0")>>),
                                Atom("e1"), Atom("e0")>>))>>}

ParseStep == LoopIdle /\ UNCHANGED <<modelVars, envVars, chk, tableVars>>

\* the elements: the rep lines, then a default element for every sort that
\* has none
ParseElems ==
    /\ mode = "parse" /\ p_pc = "elems"
    /\ \E order \in Orders(Sig.sorts) :
        LET a == parse_elems(p_lines, "", p_m)
            b == IF a.raised # "" THEN a ELSE default_elems(order, a.M) IN
        /\ p_m' = b.M
        /\ p_exc' = b.raised
        /\ p_pc' = (IF b.raised # "" THEN "raised"
                    ELSE IF p_items = <<>> THEN "completion" ELSE "items")
    /\ p_i' = 1
    /\ UNCHANGED <<p_lines, p_items, p_parsed>>
    /\ ParseStep

\* one iteration of "for item in modeln.children"
ParseItem ==
    /\ mode = "parse" /\ p_pc = "items"
    /\ LET o == parse_item(p_items[p_i], p_m) IN
        /\ p_m' = o.M
        /\ p_exc' = o.raised
        /\ p_pc' = (IF o.raised # "" THEN "raised"
                    ELSE IF p_i = Len(p_items) THEN "completion" ELSE "items")
    /\ p_i' = p_i + 1
    /\ UNCHANGED <<p_lines, p_items, p_parsed>>
    /\ ParseStep

\* the completion pass, the assertion and the return
Completion ==
    /\ mode = "parse" /\ p_pc = "completion"
    /\ LET o == completion(p_m) IN
        /\ p_m' = o.M
        /\ p_exc' = o.raised
        /\ p_pc' = (IF o.raised = "" THEN "returned"
                    ELSE IF o.ret = "assert" THEN "asserted" ELSE "raised")
    /\ p_parsed' = p_m
    /\ UNCHANGED <<p_lines, p_items, p_i>>
    /\ ParseStep

\* _parse_model(sig, lines) on a model text, nothing else running
InitParse ==
    /\ InitCommon
    /\ mode = "parse"
    /\ no_cvc4 = FALSE
    /\ formula = {}
    /\ f_models = <<>>
    /\ constraint_pos = <<>> /\ constraint_neg = <<>> /\ constraint_imp = <<>>
    /\ pc = "idle"
    /\ p_lines \in SeqsUpTo(ElemLines, MaxLines)
    /\ p_items \in {x \o y \o z : x \in ConstantItems, y \in RelationItems, z \in FunctionItems}
    /\ p_m = NewModel(Sig) /\ p_parsed = NewModel(Sig)
    /\ p_pc = "elems" /\ p_i = 0 /\ p_exc = ""

NextParse == ParseElems \/ ParseItem \/ Completion

SpecParse == InitParse /\ [][NextParse]_vars

\* ------------------------------------------- runs of learn and the tables
\* the most runs of learn begun in the process
MaxRuns == 3

TableStep == LoopIdle /\ UNCHANGED <<modelVars, envVars, chk, parseVars>>

\* learn's set-up: the tables get the symbols of the run's signature
StartRun ==
    /\ mode = "runs" /\ nruns < MaxRuns
    /\ \E i \in Callers, x \in 1..Len(RunSigs) :
        /\ runs[i].pc = "idle"
        /\ sorts_to_z3' = init_sorts(RunSigs[x], sorts_to_z3)
        /\ z3_rel_func' = init_rel_func(RunSigs[x], z3_rel_func,
                                        init_sorts(RunSigs[x], sorts_to_z3))
        /\ runs' = [runs EXCEPT ![i] = [sig |-> x, pc |-> "running", symbol |-> "none"]]
        /\ overlapped' = (overlapped \/ \E j \in Callers \ {i} : runs[j].pc = "running")
    /\ nruns' = nruns + 1
    /\ TableStep

\* toZ3 on a Relation or Func of the run's signature: z3_rel_func[f.rel]
Translate ==
    /\ mode = "runs"
    /\ \E i \in Callers :
        /\ runs[i].pc = "running"
        /\ \E x \in (DOMAIN RunSigs[runs[i].sig].relations)
                      \cup (DOMAIN RunSigs[runs[i].sig].functions) :
            runs' = [runs EXCEPT ![i].symbol = z3_rel_func[x]]
    /\ UNCHANGED <<sorts_to_z3, z3_rel_func, nruns, overlapped>>
    /\ TableStep

\* learn returns
EndRun ==
    /\ mode = "runs"
    /\ \E i \in Callers :
        /\ runs[i].pc = "running"
        /\ runs' = [runs EXCEPT ![i] = NoRun]
    /\ UNCHANGED <<sorts_to_z3, z3_rel_func, nruns, overlapped>>
    /\ TableStep

\* a process in which learn has not run yet
InitRuns ==
    /\ InitCommon
    /\ InitParseIdle
    /\ mode = "runs"
    /\ no_cvc4 = FALSE
    /\ formula = {}
    /\ f_models = <<>>
    /\ constraint_pos = <<>> /\ constraint_neg = <<>> /\ constraint_imp = <<>>
    /\ pc = "idle"

NextRuns == StartRun \/ Translate \/ EndRun

SpecRuns == InitRuns /\ [][NextRuns]_vars

\* ================================================================ claims
IsPrefix(a, b) == Len(a) <= Len(b) /\ SubSeq(b, 1, Len(a)) = a
Ended == pc \in {"done", "crashed"}
ProtocolMsg == IF no_cvc4 THEN MsgZ3 ELSE MsgCVC4

\* C1: on both backends a query reports equivalence (returns no model) only
\* when both directional checks were unsat, and when neither check gave a
\* model and they were not both unsat the query raises the protocol error,
\* which ends the run with that reason.
C1_EquivalenceOnlyOnBothUnsat ==
    mode = "learn" =>
        /\ (pc = "check_time" /\ r = NoModel) => (r1 = "unsat" /\ r2 = "unsat")
        /\ success => (r1 = "unsat" /\ r2 = "unsat")
        /\ (/\ r1 \in {"unsat", "unknown"}
            /\ r2 \in {"unsat", "unknown"}
            /\ ~(r1 = "unsat" /\ r2 = "unsat"))
           => (pc = "done" /\ ~success /\ reason = ProtocolMsg)

\* C1 witness: the external backend ended a query whose first check was
\* unsat and whose second was unknown
C1_Witness ==
    /\ mode = "learn" /\ ~no_cvc4
    /\ r1 = "unsat" /\ r2 = "unknown" /\ reason = MsgCVC4

\* C2: a counterexample a query returns is labeled "+" or "-"; labeled "+"
\* it falsifies the hypothesis and satisfies the target, labeled "-" it
\* satisfies the hypothesis and falsifies the target.
C2_LabelMatchesDirection ==
    (mode = "learn" /\ pc \in {"check_time", "add_model"} /\ r # NoModel) =>
        /\ r.label \in {"+", "-"}
        /\ r.label = "+" => (~evaluate(current, r.m) /\ evaluate(formula, r.m))
        /\ r.label = "-" => (evaluate(current, r.m) /\ ~evaluate(formula, r.m))

\* C2 witness: the external backend returned a model labeled "-"
C2_Witness ==
    /\ mode = "learn" /\ ~no_cvc4 /\ pc = "check_time"
    /\ r # NoModel /\ r.label = "-"

\* C3: every interactive run ends by returning a LearningResult, a success
\* or a failure with a non-empty reason; no exception leaves learn.
C3_RunReturnsResult ==
    (mode = "learn" /\ Ended) =>
        /\ pc = "done" /\ exc = ""
        /\ success \/ reason # ""

\* C4: the result of a run in which the counterexample timer or the
\* separation timer was exceeded is a failure whose reason is exactly
\* "timeout".
C4_TimeoutReported ==
    (mode = "learn" /\ pc = "done" /\ (Exceeded(ct) \/ Exceeded(st))) =>
        (~success /\ reason = "timeout")

C5_State ==
    (mode = "learn" /\ c.kind = "none") =>
        /\ pc = "done" /\ ~success
        /\ reason = "couldn't separate models under given restrictions"
        /\ ~ENABLED Next
        /\ models = sep_models
        /\ Len(models) = ncex /\ Len(sep_calls) = Len(models)
        /\ nqueries = Len(models)
        /\ Len(sep_calls) = 1 => (Len(models) = 1 /\ current = OrEmpty)

C5_Step ==
    (mode = "learn" /\ pc = "separate" /\ c'.kind = "none") =>
        /\ current' = current /\ models' = models
        /\ nqueries' = nqueries /\ pc' = "done"

\* C5: when the Separator's search returns no candidate the run has ended as
\* a failure with the reason of a failed separation, nothing further can
\* run, the collected models are the counterexamples registered so far
\* (one, with the empty disjunction as hypothesis, when the first search
\* failed), and the step that got the answer left the hypothesis and the
\* models as they were.
C5_NoCandidateEndsRun == [](C5_State) /\ [][C5_Step]_vars

\* C5 witness: the second search of a run returned no candidate
C5_Witness ==
    /\ mode = "learn" /\ c.kind = "none" /\ pc = "done"
    /\ Len(sep_calls) = 2 /\ current # OrEmpty

\* C6: a solve_with_cvc4 call whose subprocess timed out, exited non-zero,
\* or exited zero with a first line other than unsat / unknown / sat
\* (empty output included) returns unknown with no model and raises nothing.
C6_FailureIsUnknown ==
    (\/ proc.kind = "timeout"
     \/ /\ proc.kind = "exit"
        /\ (proc.returncode # 0 \/ proc.line \notin {"unsat", "unknown", "sat"}))
    => cvc = [raised |-> "", res |-> "unknown", m |-> NoStructure]

Ids(q) == {q[i] : i \in 1..Len(q)}
NoRepeat(q) == \A i, j \in 1..Len(q) : q[i] = q[j] => i = j
PositiveIds(n) == {i - 1 : i \in {j \in 1..n : models[j].label = "+"}}
NegativeIds(n) == {i - 1 : i \in {j \in 1..n : models[j].label # "+"}}

C7_State ==
    mode = "learn" =>
        /\ models = sep_models
        /\ Len(models) = Len(p_constraints) + Len(n_constraints)
        /\ NoRepeat(p_constraints) /\ NoRepeat(n_constraints)
        /\ Ids(p_constraints) = PositiveIds(Len(models))
        /\ Ids(n_constraints) = NegativeIds(Len(models))
        /\ Len(sep_calls) = (IF pc = "separate" THEN Len(models) - 1 ELSE Len(models))
        /\ pc = "loop" => (ncex = Len(models) /\ nqueries = Len(models))
        /\ \A j \in 1..Len(sep_calls) :
            /\ Ids(sep_calls[j].pos) = PositiveIds(j)
            /\ Ids(sep_calls[j].neg) = NegativeIds(j)
            /\ Len(sep_calls[j].pos) + Len(sep_calls[j].neg) = j
            /\ sep_calls[j].imp = <<>>

C7_Step ==
    mode = "learn" =>
        /\ IsPrefix(p_constraints, p_constraints')
        /\ IsPrefix(n_constraints, n_constraints')
        /\ IsPrefix(models, models')
        /\ IsPrefix(sep_calls, sep_calls')

\* C7: the bookkeeping of the interactive loop.  Every collected model is
\* registered, its identifier is in the positive list when its label is "+"
\* and in the negative list otherwise, and in no list twice; at the top of
\* the loop and at the end of the run the models, the identifiers and the
\* searches are equally many, and at the top of the loop so are the queries
\* that returned a model; each search got all identifiers gathered by then
\* and no implication; the lists only grow.
C7_Bookkeeping == [](C7_State) /\ [][C7_Step]_vars

\* C7 witness: back at the top of the loop with a model in each list
C7_Witness ==
    /\ mode = "learn" /\ pc = "loop"
    /\ Len(p_constraints) >= 1 /\ Len(n_constraints) >= 1
    /\ Len(sep_calls) = 2

C9_EveryAddReturnsCreated ==
    (mode = "model" /\ op.kind # "none" /\ m_exc = "") =>
        ret = (IF op.created THEN "True" ELSE "False")

C9_State ==
    (mode = "model" /\ m_exc = "") =>
        /\ op.kind \in {"add_elem", "add_constant"} =>
               ret = (IF op.created THEN "True" ELSE "False")
        /\ op.kind \in {"add_relation", "add_function"} => ret = "None"

C9_Step ==
    (mode = "model" /\ op'.kind \in {"add_elem", "add_constant"} /\ ~op'.created) =>
        (M' = M /\ ret' = "False" /\ m_exc' = "")

\* C9, amended: add_elem and add_constant return whether they created a new
\* entry, add_relation and add_function return None; adding an element name
\* or a constant name that is already present returns False, leaves every
\* field of the model as it was and raises nothing.
C9_AddReturns == [](C9_State) /\ [][C9_Step]_vars

\* C9 witness: a constant was added a second time, to a model of two elements
C9_Witness ==
    /\ mode = "model" /\ m_exc = ""
    /\ op = [kind |-> "add_constant", created |-> FALSE]
    /\ ret = "False" /\ Len(M.names) = 2

IdsOfSort(m, x) == {i - 1 : i \in {j \in 1..Len(m.sorts) : m.sorts[j] = x}}

\* C10: after add_elem calls that all returned, on a Model over the
\* finalized signature, the names are distinct, the element named names[i]
\* has id i (from 0), sorts is as long as names, and the per-sort lists, by
\* sort name and by finalized sort index, hold each id of 0..len(names)-1
\* once, in the list of its own sort.
C10_DenseIds ==
    (mode = "model" /\ m_exc = "") =>
        /\ NoRepeat(M.names)
        /\ DOMAIN M.elems = Ids(M.names)
        /\ \A i \in 1..Len(M.names) : M.elems[M.names[i]] = i - 1
        /\ Len(M.sorts) = Len(M.names)
        /\ DOMAIN M.elems_of_sort \subseteq Sig.sorts
        /\ Len(M.elems_of_sort_index) = Cardinality(Sig.sorts)
        /\ \A x \in Sig.sorts :
            /\ NoRepeat(DefaultList(M.elems_of_sort, x))
            /\ Ids(DefaultList(M.elems_of_sort, x)) = IdsOfSort(M, x)
            /\ M.elems_of_sort_index[Sig.sort_indices[x] + 1]
                   = DefaultList(M.elems_of_sort, x)
        /\ UNION {IdsOfSort(M, x) : x \in Sig.sorts} = {i - 1 : i \in 1..Len(M.names)}

\* C10 witness: a duplicate add_elem on a model with an element of each sort
C10_Witness ==
    /\ mode = "model" /\ m_exc = ""
    /\ op = [kind |-> "add_elem", created |-> FALSE]
    /\ Len(M.names) = 2 /\ M.sorts = <<"B", "A">>

\* C11: bind and pop nest like a stack, and shadowing is saved and restored:
\* in a properly nested sequence of binds and pops no call raises, and after
\* each pop lookup_var returns for every name what it returned immediately
\* before the matching bind.
C11_ShadowRestored ==
    mode = "env" =>
        /\ env_exc = ""
        /\ env_op = "pop" => Lookups(env) = env_want

RECURSIVE TermSort(_, _)
\* the sort of a term under the sorts of the variables in scope, "None"
\* when the term is not well-sorted
TermSort(t, scope) ==
    IF t.kind = "Var"
    THEN IF t.var \in DOMAIN scope THEN scope[t.var]
         ELSE IF t.var \in DOMAIN Sig.constants THEN Sig.constants[t.var]
         ELSE "None"
    ELSE IF /\ t.f \in DOMAIN Sig.functions
            /\ Len(t.args) = Len(Sig.functions[t.f][1])
            /\ \A i \in 1..Len(t.args) : TermSort(t.args[i], scope) = Sig.functions[t.f][1][i]
         THEN Sig.functions[t.f][2]
         ELSE "None"

RECURSIVE WellSorted(_, _)
WellSorted(g, scope) ==
    CASE g.kind \in {"And", "Or"} -> \A i \in 1..Len(g.c) : WellSorted(g.c[i], scope)
      [] g.kind = "Not" -> WellSorted(g.f, scope)
      [] g.kind = "Equal" ->
            /\ TermSort(g.args[1], scope) # "None"
            /\ TermSort(g.args[1], scope) = TermSort(g.args[2], scope)
      [] g.kind = "Relation" ->
            /\ g.rel \in DOMAIN Sig.relations
            /\ Len(g.args) = Len(Sig.relations[g.rel])
            /\ \A i \in 1..Len(g.args) : TermSort(g.args[i], scope) = Sig.relations[g.rel][i]
      [] OTHER -> g.sort \in Sig.sorts /\ WellSorted(g.f, (g.var :> g.sort) @@ scope)

\* no free variable: every variable is bound by a quantifier or is a
\* constant of the signature
Closed(g) == free_vars(g) \subseteq DOMAIN Sig.constants

\* C12: check(f, m, {}) on a Model that model_is_complete_wrt_sig accepts
\* and a closed, well-sorted formula over the signature returns a boolean
\* and raises nothing.
C12_CheckTotal ==
    (/\ mode = "model" /\ chk.f # 0
     /\ model_is_complete_wrt_sig(M, Sig)
     /\ Closed(CheckFormulas[chk.f])
     /\ WellSorted(CheckFormulas[chk.f], <<>>))
    => (chk.raised = "" /\ chk.v \in BOOLEAN)

\* C13: a call of _parse_model that processes its text to the end, the
\* final assertion, returns a Model that is complete for the signature (the
\* assertion does not fail): every sort has an element, every constant a
\* value, every function a value on every tuple of its argument sorts'
\* elements; and the completion pass changes no entry the parsed output
\* had given.
C13_ParsedModelComplete ==
    (mode = "parse" /\ p_pc \in {"returned", "asserted"}) =>
        /\ p_pc = "returned" /\ p_exc = ""
        /\ model_is_complete_wrt_sig(p_m, Sig)
        /\ \A x \in DOMAIN p_parsed.constants : p_m.constants[x] = p_parsed.constants[x]
        /\ \A x \in DOMAIN p_parsed.relations : p_m.relations[x] = p_parsed.relations[x]
        /\ \A x \in DOMAIN p_parsed.functions :
            \A t \in DOMAIN p_parsed.functions[x] :
                p_m.functions[x][t] = p_parsed.functions[x][t]

\* the symbols a run over sig declares
SymbolsOf(sig) ==
    [x \in (DOMAIN sig.relations) \cup (DOMAIN sig.functions) |->
        IF x \in DOMAIN sig.functions
        THEN [name |-> x, domain |-> sig.functions[x][1], range |-> sig.functions[x][2]]
        ELSE [name |-> x, domain |-> sig.relations[x], range |-> "Bool"]]

\* C14: in runs of learn that follow one another, with different
\* signatures, the tables hold during a run exactly the sorts, relations
\* and functions of that run's signature, with no entry left from an
\* earlier run.
C14_FreshTables ==
    (mode = "runs" /\ ~overlapped) =>
        \A i \in Callers :
            runs[i].pc = "running" =>
                /\ DOMAIN sorts_to_z3 = RunSigs[runs[i].sig].sorts
                /\ z3_rel_func = SymbolsOf(RunSigs[runs[i].sig])

\* the structures a check in direction dir can answer with
DirSet(dir) ==
    IF dir = CurrentNotFormula THEN Disagree(current, formula)
    ELSE Disagree(formula, current)

\* the query in progress has returned a model
ModelReturned == mode = "learn" /\ pc = "check_time" /\ r # NoModel
OneDirection == \A i \in 1..Len(issued) : issued[i].dir = issued[1].dir

\* at most the first check gave a model: the other direction is checked only
\* when the first check gave none, and after a check without bound that gave
\* a model no check without bound follows
C15_SecondOnlyAfterNoModel ==
    /\ \A i \in 1..Len(issued) : issued[i].dir # issued[1].dir => issued[1].res # "sat"
    /\ \A i, j \in 1..Len(issued) :
        (i < j /\ issued[i].k = 0 /\ issued[i].res = "sat") => issued[j].k > 0

\* C15 as stated: the first check issued in a query is the one whose model
\* is returned labeled "+"; the other check is issued only if the first gave
\* no model, and no directional check follows one that gave a model.
C15_PlusCheckFirst ==
    (mode = "learn" /\ issued # <<>>) =>
        /\ (ModelReturned /\ OneDirection) => r.label = "+"
        /\ C15_SecondOnlyAfterNoModel

\* C15, amended: on both backends the first check issued in a query is
\* current AND NOT formula, whose model is returned labeled "-"; the check
\* formula AND NOT current, whose model is returned labeled "+", is issued
\* only if the first gave no model; after a check that gave a model no check
\* in the other direction follows (the embedded backend repeats the same
\* check under bounds, the external backend issues no bounded check).
C15_MinusCheckFirst ==
    (mode = "learn" /\ issued # <<>>) =>
        /\ issued[1].dir = CurrentNotFormula /\ issued[1].k = 0
        /\ (ModelReturned /\ OneDirection) => r.label = "-"
        /\ (ModelReturned /\ ~OneDirection) => r.label = "+"
        /\ C15_SecondOnlyAfterNoModel
        /\ \A i, j \in 1..Len(issued) :
            (i < j /\ issued[i].res = "sat") => issued[j].dir = issued[i].dir
        /\ \A i \in 1..Len(issued) :
            issued[i].dir = (IF i = 1 \/ issued[1].res = "sat"
                             THEN CurrentNotFormula ELSE FormulaNotCurrent)
        /\ ~no_cvc4 => (Len(issued) <= 2 /\ \A i \in 1..Len(issued) : issued[i].k = 0)

\* C15 witness: the second check of a query gave the model, on the external
\* backend
C15_Witness ==
    /\ ModelReturned /\ ~no_cvc4 /\ r.label = "+"
    /\ Len(issued) = 2 /\ issued[1].res = "unsat" /\ issued[2].res = "sat"

\* the minimization loop of the query in progress: the checks under bounds
\* were issued for K = 1, 2, ... right after the check without bound that
\* gave a model, in the same direction, and none before the last gave a model
MinimizationLoop(n) ==
    /\ k >= 1 /\ n > k
    /\ issued[n - k].k = 0 /\ issued[n - k].res = "sat"
    /\ \A i \in 1..k :
        /\ issued[n - k + i].k = i
        /\ issued[n - k + i].dir = issued[n - k].dir
        /\ i < k => issued[n - k + i].res # "sat"

\* what the embedded backend returns after its minimization loop
C16_Returned(n) ==
    /\ MinimizationLoop(n)
    /\ issued[n].res = "sat"
    /\ r.m \in DirSet(issued[n].dir)
    /\ ModelSize(r.m) <= k
    /\ r.label = (IF issued[n].dir = CurrentNotFormula THEN "-" ELSE "+")

\* C16 as stated: the counterexample of the embedded backend is the witness
\* at the smallest K for which the check under the bound K is satisfiable:
\* no smaller K is satisfiable.
C16_SmallestSatisfiableK ==
    (ModelReturned /\ no_cvc4) =>
        /\ C16_Returned(Len(issued))
        /\ \A m \in DirSet(issued[Len(issued)].dir) : ModelSize(m) >= k

\* C16, amended: the counterexample of the embedded backend is the witness
\* at the smallest K >= 1, tried in increasing order, for which the solver
\* answers sat to the check under the bound K: every sort of it has at most
\* K elements, it carries the label of its direction, and the loop stops
\* there; when the solver answered unsat (never unknown) for every smaller K
\* no smaller K is satisfiable.  A loop that reaches its last iteration
\* without a model ends in an AssertionError and returns nothing.
C16_SmallestAnsweredK ==
    (mode = "learn" /\ no_cvc4) =>
        /\ ModelReturned =>
            /\ C16_Returned(Len(issued))
            /\ (\A i \in 1..(Len(issued) - 1) : issued[i].k > 0 => issued[i].res = "unsat")
                => \A m \in DirSet(issued[Len(issued)].dir) : ModelSize(m) >= k
        /\ exc = "AssertionError" =>
            /\ pc = "crashed" /\ ~success
            /\ MinimizationLoop(Len(issued))
            /\ k = MaxK /\ issued[Len(issued)].res # "sat"

\* C16 witness: the loop returned at K = 2 after an unsat answer at K = 1
C16_Witness ==
    /\ ModelReturned /\ no_cvc4 /\ k = 2
    /\ issued[Len(issued)].k = 2 /\ issued[Len(issued) - 1].res = "unsat"
    /\ ModelSize(r.m) = 2

\* C17: with a sound oracle and a Separator that honours its contract, at
\* the top of the loop the hypothesis agrees with the target on every model
\* collected so far, no structure is collected or returned twice, and over
\* the NModels candidate structures a run makes at most NModels + 1 oracle
\* queries.
C17_Progress ==
    mode = "learn" =>
        /\ nqueries <= NModels + 1
        /\ Len(models) <= NModels
        /\ NoRepeat([i \in 1..Len(models) |-> models[i].m])
        /\ pc = "loop" =>
            \A i \in 1..Len(models) :
                evaluate(current, models[i].m) <=> evaluate(formula, models[i].m)
        /\ (pc \in {"check_time", "add_model"} /\ r # NoModel) =>
            \A i \in 1..Len(models) : models[i].m # r.m

\* C17 witness: a run that succeeded with its query number NModels + 1
C17_Witness ==
    /\ mode = "learn" /\ pc = "done" /\ success
    /\ nqueries = NModels + 1 /\ Len(models) = NModels

\* C18: on both backends a query whose checks raised nothing leaves the
\* solver's assertion stack as it was before the query, holding the axioms
\* only: between the checks of a run, and after it, neither a frame nor the
\* assertions of a check nor a bound of the minimization loop is left.
C18_StackRestored ==
    (mode = "learn" /\ (issued = <<>> \/ issued[Len(issued)].res # "none")) =>
        /\ solver = NewSolver
        /\ Asserted(solver) = Structures

\* C18 witness: the minimization loop returned a model at K = 2
C18_Witness ==
    /\ ModelReturned /\ no_cvc4 /\ k = 2 /\ r.label = "+"
    /\ solver = NewSolver

====
